---- MODULE Spec2Model ----
(***************************************************************************)
(* State machine of the payment-methods page (PaymentMethodsPage in        *)
(* PaymentService.tsx): the React state of the component, the requests in  *)
(* flight, and one action per effect, event handler and request            *)
(* continuation.  JavaScript is single threaded: every action is one       *)
(* synchronous segment of a handler (up to its next await that touches     *)
(* state, or from a settled response to the end of the handler).           *)
(*                                                                         *)
(* Spec and FairSpec are the page.  AuthSpec applies the derivation of the *)
(* Authorization header to a bounded set of raw tokens, CardSpec applies   *)
(* makeCardDescriptors (the card registry) and the render of its           *)
(* descriptors to a bounded set of dashboard data.                         *)
(***************************************************************************)
EXTENDS Naturals, Sequences, FiniteSets, TLC

(* ------------------------- bounds of the model ------------------------- *)

\* Requests (GET and PATCH) the page issues in a run.
MaxRequests == 3

\* Characters of a raw token after its head, for the derivation on its own.
MaxBodyLen == 3

(* --------------------------- JavaScript values ------------------------- *)

\* null / a present value, as a sequence of length 0 / 1.
Null == <<>>
Some(x) == <<x>>
Get(o) == o[1]

\* Values a field of a PaymentService record can hold in this model; an
\* absent property reads as undefined.
Undefined == "undefined"
True == "true"
False == "false"

\* JS truthiness of a field value and the results of !v and !!v.
Truthy(v) == v \notin {Undefined, False}
Bool(b) == IF b THEN True ELSE False
Not(v) == Bool(~Truthy(v))
NotNot(v) == Bool(Truthy(v))

(* ------------------------------ strings -------------------------------- *)

\* A string is a sequence of one-character strings.
Whitespace == {" ", "\t", "\n"}

Lower(c) ==
  CASE c = "B" -> "b" [] c = "E" -> "e" [] c = "A" -> "a" [] c = "R" -> "r"
    [] c = "T" -> "t" [] c = "O" -> "o" [] c = "K" -> "k" [] c = "N" -> "n"
    [] OTHER -> c

Concat(s, t) == s \o t

\* String.prototype.trim: the longest substring without whitespace at
\* either end.
RECURSIVE TrimStart(_)
TrimStart(s) ==
  IF s # <<>> /\ Head(s) \in Whitespace THEN TrimStart(Tail(s)) ELSE s

RECURSIVE TrimEnd(_)
TrimEnd(s) ==
  IF s # <<>> /\ s[Len(s)] \in Whitespace
    THEN TrimEnd(SubSeq(s, 1, Len(s) - 1)) ELSE s

Trim(s) == TrimEnd(TrimStart(s))

\* raw.replace(/^"(.*)"$/, "$1"): the whole string is a quote, any
\* characters but line breaks, and a quote.
Unquote(s) ==
  IF /\ Len(s) >= 2
     /\ s[1] = "\""
     /\ s[Len(s)] = "\""
     /\ \A i \in 2..(Len(s) - 1) : s[i] # "\n"
    THEN SubSeq(s, 2, Len(s) - 1)
    ELSE s

\* /^word\s+/i.test(t)
StartsWithWordSpace(word, t) ==
  /\ Len(t) > Len(word)
  /\ \A i \in 1..Len(word) : Lower(t[i]) = Lower(word[i])
  /\ t[Len(word) + 1] \in Whitespace

BearerWord == <<"B", "e", "a", "r", "e", "r">>
TokenWord == <<"T", "o", "k", "e", "n">>
PREFERRED_SCHEME == TokenWord

\* A slip in sanitizeToken: the quotes are left where they are.
sanitizeTokenQuoted(raw) ==
  IF raw = Null \/ Get(raw) = <<>> THEN Null
  ELSE Some(Trim(Get(raw)))

\* raw: Null or Some(string); result Null or Some(string).
sanitizeToken(raw) ==
  IF raw = Null \/ Get(raw) = <<>> THEN Null
  ELSE Some(Trim(Unquote(Get(raw))))

hasScheme(t) ==
  StartsWithWordSpace(BearerWord, t) \/ StartsWithWordSpace(TokenWord, t)

\* A slip in buildHeaderFromRaw: the scheme is put in front of every token.
buildHeaderAlways(raw, preferred) == Concat(preferred, Concat(<<" ">>, raw))

buildHeaderFromRaw(raw, preferred) ==
  IF hasScheme(raw) THEN raw ELSE Concat(preferred, Concat(<<" ">>, raw))

\* A slip in the effect on [token]: the cleaned token is not tested, so an
\* empty one gets the scheme in front.
DeriveAuthHeaderOfEmpty(tok) ==
  IF tok # Null /\ Get(tok) # <<>>
    THEN Some(buildHeaderFromRaw(Get(sanitizeToken(tok)), PREFERRED_SCHEME))
    ELSE Null

\* The effect on [token]: the value handed to setAuthHeader.
DeriveAuthHeader(tok) ==
  IF tok # Null /\ Get(tok) # <<>>
    THEN LET cleanToken == sanitizeToken(tok)
         IN  IF cleanToken # Null /\ Get(cleanToken) # <<>>
               THEN Some(buildHeaderFromRaw(Get(cleanToken), PREFERRED_SCHEME))
               ELSE Null
    ELSE Null

(* ------------------------------- data ---------------------------------- *)

Keys == {"a", "b"}
Fields == {"is_active", "url"}
\* Fields with an input in the manage panel.
EditableFields == {"url"}

\* PaymentService records: every field optional.
Data == [is_active : {Undefined, True, False}, url : {Undefined, "u1", "u2"}]
EmptyData == [is_active |-> Undefined, url |-> Undefined]

\* { ...base, ...over }: the properties present in over win.
Spread(base, over) ==
  [f \in Fields |-> IF over[f] # Undefined THEN over[f] ELSE base[f]]

\* { ...d, [f]: v }
With(d, f, v) == [d EXCEPT ![f] = v]

Row(k, d) == [key |-> k, data |-> d]

\* services.find / findIndex by key.
HasRow(rows, k) == \E i \in 1..Len(rows) : rows[i].key = k
RowData(rows, k) ==
  rows[CHOOSE i \in 1..Len(rows) :
         rows[i].key = k /\ \A j \in 1..(i - 1) : rows[j].key # k].data

\* A slip in the map of toggleService: the key is not compared, every row
\* gets the value.
SetIsActiveOfAll(rows, k, v) ==
  [i \in 1..Len(rows) |-> Row(rows[i].key, With(rows[i].data, "is_active", v))]

\* prev.map((s) => (s.key === key ? { ...s, data: { ...s.data, is_active: v } } : s))
SetIsActive(rows, k, v) ==
  [i \in 1..Len(rows) |->
     IF rows[i].key = k
       THEN Row(rows[i].key, With(rows[i].data, "is_active", v)) ELSE rows[i]]

\* prev.map((s) => (s.key === key ? { key, data: d } : s))
ReplaceData(rows, k, d) ==
  [i \in 1..Len(rows) |-> IF rows[i].key = k THEN Row(k, d) ELSE rows[i]]

\* prev.map((s) => (s.key === key ? { ...s, data: { ...s.data, ...over } } : s))
MergeData(rows, k, over) ==
  [i \in 1..Len(rows) |->
     IF rows[i].key = k
       THEN Row(rows[i].key, Spread(rows[i].data, over)) ELSE rows[i]]

RemoveAt(s, i) == SubSeq(s, 1, i - 1) \o SubSeq(s, i + 1, Len(s))

(* --------------------- what the collaborators send --------------------- *)

\* Raw tokens the auth hook hands over.
RawTokens ==
  { Null,
    Some(<<"k">>),
    Some(<<"\"", "k", "\"">>),
    Some(<<"b", "e", "a", "r", "e", "r", " ", "k">>),
    Some(<<"\"", " ", "\"">>) }

dOff == [is_active |-> False, url |-> "u1"]
dOn == [is_active |-> True, url |-> "u1"]

\* payment_services of a GET 200 body, as Object.entries lists it (<<>>
\* also stands for a body without the field).
GetBodies ==
  { <<>>,
    <<Row("a", dOff), Row("b", EmptyData)>>,
    <<Row("b", dOn)>> }

\* A PATCH 2xx body: whether it parses as JSON, and its payment_services.
PatchBody(ok, ps) == [parses |-> ok, payment_services |-> ps]
PatchRecords == {dOn, EmptyData}
PatchBodies(k) ==
  {PatchBody(FALSE, <<>>), PatchBody(TRUE, <<>>)}
    \cup {PatchBody(TRUE, <<Row(k, d)>>) : d \in PatchRecords}

\* json && json.payment_services && json.payment_services[key]
HasRecord(body, k) == body.parses /\ HasRow(body.payment_services, k)

\* How a request fails: non-2xx, rejected fetch, and for the GET a 200
\* whose body is not JSON.
PatchFailures == {"http", "network"}
GetFailures == {"http", "json"}

NoTokenMsg == "No auth token found."

\* e.target.value of the inputs of the manage panel.
TypedValues == {"u2"}

(* --------------------------- card registry ----------------------------- *)

\* Values of the dashboard data: null, undefined, an array, or an object
\* with the fields salesChart and recentUsers.
NullData == <<"null">>
UndefinedData == <<"undefined">>
Arr(items) == <<"array", items>>
Obj(salesChart, recentUsers) == <<"object", salesChart, recentUsers>>

\* data?.salesChart, data?.recentUsers
salesChartOf(data) ==
  IF data \in {NullData, UndefinedData} THEN UndefinedData ELSE data[2]
recentUsersOf(data) ==
  IF data \in {NullData, UndefinedData} THEN UndefinedData ELSE data[3]

\* A slip in render: the value is passed on without || [].
OrEmptyArrayKept(v) == v

\* v || []
OrEmptyArray(v) ==
  IF v \in {NullData, UndefinedData} THEN Arr(<<>>) ELSE v

\* What the dashboard data collaborator supplies, and what render is called
\* with.
SeriesValues == {UndefinedData, NullData, Arr(<<>>), Arr(<<"p">>)}
DashboardInputs ==
  {NullData, UndefinedData}
    \cup {Obj(c, u) : c \in SeriesValues, u \in SeriesValues}

\* The React element of a JSX expression: the component and its props.
Element(component, props) == [component |-> component, props |-> props]
NoProps == <<>>

\* The members of CardId, the key type of the record makeCardDescriptors
\* returns.
CardIds ==
  {"card-sales", "card-sales-source", "card-transactions", "card-recent-users"}

\* The object literal makeCardDescriptors returns; render is the arrow
\* function of each descriptor, on its own parameter data.
makeCardDescriptors(data) ==
  ("card-sales" :>
     [id |-> "card-sales", title |-> "Sales Chart",
      render |-> [d \in DashboardInputs |->
        Element("SalesChart", [salesData |-> OrEmptyArray(salesChartOf(d))])]])
  @@ ("card-sales-source" :>
     [id |-> "card-sales-source", title |-> "Sales Source",
      render |-> [d \in DashboardInputs |-> Element("SalesSourceCard", NoProps)]])
  @@ ("card-transactions" :>
     [id |-> "card-transactions", title |-> "Recent Payment Transactions",
      render |-> [d \in DashboardInputs |-> Element("Transactions", NoProps)]])
  @@ ("card-recent-users" :>
     [id |-> "card-recent-users", title |-> "Recent Users",
      render |-> [d \in DashboardInputs |->
        Element("RecentUsersTable", [users |-> OrEmptyArray(recentUsersOf(d))])]])

(* ------------------------------- state --------------------------------- *)

VARIABLES
  token,        \* useAuth(false).token: Null or Some(string)
  authHeader,   \* useState<string | null>(null)
  services,     \* useState<ServiceRow[]>([])
  loading,      \* useState<boolean>(true)
  error,        \* useState<string | null>(null)
  expandedKey,  \* useState<string | null>(null)
  editing,      \* useState<Record<string, unknown> | null>(null)
  saving,       \* useState<boolean>(false)
  toggling,     \* useState<Record<string, boolean>>({})
  fetches,      \* GETs in flight, oldest first: [auth, mounted]
  toggleReqs,   \* toggle PATCHes in flight: [key, current, newVal], and as
                \* history the row's is_active when the button was pressed
  saveReqs,     \* save PATCHes in flight, oldest first: [key, editing, edited]
  alertMsg,     \* the alert() the last step raised, "none" if it raised none
  edited,       \* history: the draft fields the user has typed into
  last,         \* history: the step taken last: [op, key], the record a
                \* response carried (got), the key expanded before or, for
                \* a toggle response, savedOver of its key (from)
  loaded,       \* history: a GET has filled the list
  filledFor,    \* history: the Authorization header of the GET that filled
                \* the list last, Null before any did
  savedOver,    \* history, per key: the row a successful save left while
                \* the toggle PATCH of that key was in flight, Null otherwise
  requests,     \* history: requests issued so far
  cardData,     \* the argument of makeCardDescriptors
  cards,        \* the registry makeCardDescriptors returned, Null before
  rendered      \* the last call of a descriptor's render: [id, data, element]

vars ==
  <<token, authHeader, services, loading, error, expandedKey, editing, saving,
    toggling, fetches, toggleReqs, saveReqs, alertMsg, edited, last,
    loaded, filledFor, savedOver, requests, cardData, cards, rendered>>

cardVars == <<cardData, cards, rendered>>

pageVars ==
  <<token, authHeader, services, loading, error, expandedKey, editing, saving,
    toggling, fetches, toggleReqs, saveReqs, alertMsg, edited, last,
    loaded, filledFor, savedOver, requests>>

NoKey == "-"
Step(op, k) == [op |-> op, key |-> k, got |-> Null, from |-> Null]
StepGot(op, k, d) == [op |-> op, key |-> k, got |-> Some(d), from |-> Null]
StepFrom(op, k, e) == [op |-> op, key |-> k, got |-> Null, from |-> e]

\* The rows are rendered only when the page neither loads nor shows an error
\* (the ternary at the top of the returned JSX).
RowsShown == ~loading /\ error = Null

\* The manage panel of row k is rendered, with its inputs and buttons.
PanelShown(k) == RowsShown /\ HasRow(services, k) /\ expandedKey = Some(k)

\* State after the first commit and its effects when the auth hook has no
\* token yet: the effect on [token] keeps authHeader null, the effect on
\* [authHeader] takes its early return.
Init ==
  /\ token = Null
  /\ authHeader = Null
  /\ services = <<>>
  /\ loading = FALSE
  /\ error = Some(NoTokenMsg)
  /\ expandedKey = Null
  /\ editing = Null
  /\ saving = FALSE
  /\ toggling = [k \in Keys |-> Undefined]
  /\ fetches = <<>>
  /\ toggleReqs = {}
  /\ saveReqs = <<>>
  /\ alertMsg = "none"
  /\ edited = {}
  /\ last = Step("mount", NoKey)
  /\ loaded = FALSE
  /\ filledFor = Null
  /\ savedOver = [k \in Keys |-> Null]
  /\ cardData = NullData
  /\ cards = Null
  /\ rendered = Null
  /\ requests = 0

(* -------------------- the effects on token / authHeader ---------------- *)

\* A slip in the cleanup of the fetch effect: mounted is left true.
CleanupKept(fs) == fs

\* Cleanup of the effect on [authHeader]: mounted = false in the closure of
\* the fetch that effect run started.
Cleanup(fs) == [i \in 1..Len(fs) |-> [fs[i] EXCEPT !.mounted = FALSE]]

\* The auth hook hands over another token: the effect on [token] runs, and
\* when the header it sets differs from the old one the effect on
\* [authHeader] is cleaned up and runs again.
TokenChange(t) ==
  /\ t # token
  /\ LET h == DeriveAuthHeader(t) IN
     /\ token' = t
     /\ authHeader' = h
     /\ IF h = authHeader
          THEN UNCHANGED <<loading, error, fetches, requests>>
          ELSE IF h = Null
            THEN /\ loading' = FALSE
                 /\ error' = Some(NoTokenMsg)
                 /\ fetches' = Cleanup(fetches)
                 /\ UNCHANGED requests
            ELSE /\ requests < MaxRequests
                 /\ requests' = requests + 1
                 /\ loading' = TRUE
                 /\ error' = Null
                 /\ fetches' =
                      Append(Cleanup(fetches), [auth |-> h, mounted |-> TRUE])
  /\ alertMsg' = "none"
  /\ last' = Step("token", NoKey)
  /\ UNCHANGED <<services, expandedKey, editing, saving, toggling, toggleReqs,
                 saveReqs, edited, loaded, filledFor, savedOver, cardVars>>

\* Object.entries(obj).map(([k, v]) => ({ key: k, data: v || {} }))
EntriesToRows(ps) == [i \in 1..Len(ps) |-> Row(ps[i].key, ps[i].data)]

\* The GET settles with a 2xx whose body parses.
FetchOk(i, ps) ==
  /\ i \in 1..Len(fetches)
  /\ fetches' = RemoveAt(fetches, i)
  /\ IF fetches[i].mounted
       THEN /\ services' = EntriesToRows(ps) /\ loading' = FALSE
            /\ loaded' = TRUE /\ filledFor' = fetches[i].auth
       ELSE UNCHANGED <<services, loading, loaded, filledFor>>
  /\ alertMsg' = "none"
  /\ last' = Step(IF fetches[i].mounted THEN "fetchOk" ELSE "fetchStale", NoKey)
  /\ UNCHANGED <<requests, token, authHeader, error, expandedKey, editing,
                 saving, toggling, toggleReqs, saveReqs, edited, savedOver,
                 cardVars>>

\* A slip in the catch of the fetch effect: the list is emptied.
FetchFailClearing(i, kind) ==
  /\ i \in 1..Len(fetches)
  /\ fetches' = RemoveAt(fetches, i)
  /\ IF fetches[i].mounted
       THEN error' = Some(kind) /\ loading' = FALSE /\ services' = <<>>
       ELSE UNCHANGED <<error, loading, services>>
  /\ alertMsg' = "none"
  /\ last' = Step(IF fetches[i].mounted THEN "fetchFail" ELSE "fetchStale", NoKey)
  /\ UNCHANGED <<cardVars, savedOver, loaded, filledFor, requests, token,
                 authHeader, expandedKey, editing, saving, toggling,
                 toggleReqs, saveReqs, edited>>

\* A slip in the fetch effect: no finally, a failed GET leaves loading as it is.
FetchFailStillLoading(i, kind) ==
  /\ i \in 1..Len(fetches)
  /\ fetches' = RemoveAt(fetches, i)
  /\ IF fetches[i].mounted
       THEN error' = Some(kind) /\ loading' = loading
       ELSE UNCHANGED <<error, loading>>
  /\ alertMsg' = "none"
  /\ last' = Step(IF fetches[i].mounted THEN "fetchFail" ELSE "fetchStale", NoKey)
  /\ UNCHANGED <<cardVars, savedOver, loaded, filledFor, requests, token,
                 authHeader, services, expandedKey, editing, saving, toggling,
                 toggleReqs, saveReqs, edited>>

\* The GET fails: the catch block, then finally.
FetchFail(i, kind) ==
  /\ i \in 1..Len(fetches)
  /\ fetches' = RemoveAt(fetches, i)
  /\ IF fetches[i].mounted
       THEN error' = Some(kind) /\ loading' = FALSE
       ELSE UNCHANGED <<error, loading>>
  /\ alertMsg' = "none"
  /\ last' = Step(IF fetches[i].mounted THEN "fetchFail" ELSE "fetchStale", NoKey)
  /\ UNCHANGED <<cardVars, savedOver, loaded, filledFor, requests, token,
                 authHeader, services, expandedKey, editing, saving, toggling,
                 toggleReqs, saveReqs, edited>>

(* -------------------------- manage panel ------------------------------- *)

\* A slip in the draft of openManage: the first row is copied, whatever key.
ManageDraftOfFirstRow(rows, key) ==
  IF rows # <<>> THEN Some(rows[1].data) ELSE Some(EmptyData)

\* const svc = services.find((s) => s.key === key);
\* the argument of setEditing: svc ? { ...svc.data } : {}
ManageDraft(rows, key) ==
  IF HasRow(rows, key) THEN Some(RowData(rows, key)) ELSE Some(EmptyData)

\* The Manage button of row k.
openManage(key) ==
  /\ RowsShown
  /\ HasRow(services, key)
  /\ expandedKey' = IF expandedKey = Some(key) THEN Null ELSE Some(key)
  /\ editing' = ManageDraft(services, key)
  /\ edited' = {}
  /\ alertMsg' = "none"
  /\ last' = StepFrom(IF expandedKey = Some(key) THEN "manageClose" ELSE "manageOpen",
                      key, expandedKey)
  /\ UNCHANGED <<cardVars, savedOver, loaded, filledFor, requests, token,
                 authHeader, services, loading, error, saving, toggling,
                 fetches, toggleReqs, saveReqs>>

\* The Cancel button of the open panel.
cancelEdit ==
  /\ \E k \in Keys : PanelShown(k)
  /\ editing' = Null
  /\ expandedKey' = Null
  /\ edited' = {}
  /\ alertMsg' = "none"
  /\ last' = Step("cancel", Get(expandedKey))
  /\ UNCHANGED <<cardVars, savedOver, loaded, filledFor, requests, token,
                 authHeader, services, loading, error, saving, toggling,
                 fetches, toggleReqs, saveReqs>>

\* onChange of an input of the open panel:
\* setEditing((p) => ({ ...(p ?? {}), [f]: e.target.value }))
EditField(f, v) ==
  /\ \E k \in Keys : PanelShown(k)
  /\ editing' = Some(With(IF editing = Null THEN EmptyData ELSE Get(editing), f, v))
  /\ edited' = edited \cup {f}
  /\ alertMsg' = "none"
  /\ last' = Step("edit", Get(expandedKey))
  /\ UNCHANGED <<cardVars, savedOver, loaded, filledFor, requests, token,
                 authHeader, services, loading, error, expandedKey, saving,
                 toggling, fetches, toggleReqs, saveReqs>>

(* ------------------------------ toggle --------------------------------- *)

\* A slip that would rule the race out: the toggle button does nothing while a
\* save is in flight.
toggleServiceUnlessSaving(key) ==
  /\ RowsShown
  /\ HasRow(services, key)
  /\ ~Truthy(toggling[key])
  /\ ~saving
  /\ LET current == NotNot(RowData(services, key).is_active)
         newVal == Not(current)
     IN  /\ services' = SetIsActive(services, key, newVal)
         /\ toggleReqs' = toggleReqs \cup
              {[key |-> key, current |-> current, newVal |-> newVal,
                before |-> RowData(services, key).is_active]}
  /\ toggling' = [toggling EXCEPT ![key] = True]
  /\ alertMsg' = "none"
  /\ last' = Step("toggle", key)
  /\ requests < MaxRequests
  /\ requests' = requests + 1
  /\ UNCHANGED <<cardVars, savedOver, loaded, filledFor, token, authHeader,
                 loading, error, expandedKey, editing, saving, fetches,
                 saveReqs, edited>>

\* The toggle button of row key, up to the await of the PATCH.
toggleService(key) ==
  /\ RowsShown
  /\ HasRow(services, key)
  /\ ~Truthy(toggling[key])
  /\ LET current == NotNot(RowData(services, key).is_active)
         newVal == Not(current)
     IN  /\ services' = SetIsActive(services, key, newVal)
         /\ toggleReqs' = toggleReqs \cup
              {[key |-> key, current |-> current, newVal |-> newVal,
                before |-> RowData(services, key).is_active]}
  /\ toggling' = [toggling EXCEPT ![key] = True]
  /\ alertMsg' = "none"
  /\ last' = Step("toggle", key)
  /\ requests < MaxRequests
  /\ requests' = requests + 1
  /\ UNCHANGED <<cardVars, savedOver, loaded, filledFor, token, authHeader,
                 loading, error, expandedKey, editing, saving, fetches,
                 saveReqs, edited>>

\* A slip in the success branch of toggleService: the record is merged into
\* the row instead of replacing it.
ToggleOkRowsMerged(rows, key, body) ==
  IF HasRecord(body, key)
    THEN MergeData(rows, key, RowData(body.payment_services, key))
    ELSE rows

\* const json = await res.json().catch(() => null); and the setServices
\* under the if: the list after a 2xx of the toggle PATCH.
ToggleOkRows(rows, key, body) ==
  IF HasRecord(body, key)
    THEN ReplaceData(rows, key, RowData(body.payment_services, key))
    ELSE rows

\* A slip in the finally of toggleService: the flag is left as it is.
ToggleFinallyKept(t, key) == t

\* finally: setToggling((t) => ({ ...t, [key]: false }))
ToggleFinally(t, key) == [t EXCEPT ![key] = False]

\* The toggle PATCH settles with a 2xx.
ToggleOk(r, body) ==
  /\ r \in toggleReqs
  /\ toggleReqs' = toggleReqs \ {r}
  /\ services' = ToggleOkRows(services, r.key, body)
  /\ toggling' = ToggleFinally(toggling, r.key)
  /\ alertMsg' = "none"
  /\ last' = IF HasRecord(body, r.key)
               THEN [StepGot("toggleOkRecord", r.key,
                             RowData(body.payment_services, r.key))
                       EXCEPT !.from = savedOver[r.key]]
               ELSE Step(IF body.parses THEN "toggleOkNoRecord" ELSE "toggleOkBadJson",
                         r.key)
  /\ savedOver' = [savedOver EXCEPT ![r.key] = Null]
  /\ UNCHANGED <<cardVars, loaded, filledFor, requests, token, authHeader,
                 loading, error, expandedKey, editing, saving, fetches,
                 saveReqs, edited>>

\* The toggle PATCH fails: the catch block, then finally.
ToggleFail(r, kind) ==
  /\ r \in toggleReqs
  /\ toggleReqs' = toggleReqs \ {r}
  /\ services' = SetIsActive(services, r.key, r.current)
  /\ alertMsg' = "Failed to change status"
  /\ toggling' = ToggleFinally(toggling, r.key)
  /\ last' = Step("toggleFail", r.key)
  /\ savedOver' = [savedOver EXCEPT ![r.key] = Null]
  /\ UNCHANGED <<cardVars, loaded, filledFor, requests, token, authHeader,
                 loading, error, expandedKey, editing, saving, fetches,
                 saveReqs, edited>>

(* ------------------------------- save ---------------------------------- *)

\* A slip in the Save button: never disabled.
SaveNeverDisabled(flag) == FALSE

\* disabled={saving} of the Save button.
SaveDisabled(flag) == flag

\* The Save button of the open panel of row key, up to the await of the
\* PATCH.
saveService(key) ==
  /\ PanelShown(key)
  /\ ~SaveDisabled(saving)
  /\ editing # Null
  /\ saving' = TRUE
  /\ saveReqs' = Append(saveReqs,
       [key |-> key, editing |-> Get(editing), edited |-> edited])
  /\ alertMsg' = "none"
  /\ last' = Step("save", key)
  /\ requests < MaxRequests
  /\ requests' = requests + 1
  /\ UNCHANGED <<cardVars, savedOver, loaded, filledFor, token, authHeader,
                 services, loading, error, expandedKey, editing, toggling,
                 fetches, toggleReqs, edited>>

\* The save PATCH settles with a 2xx.
SaveOk(i, body) ==
  /\ i \in 1..Len(saveReqs)
  /\ saveReqs' = RemoveAt(saveReqs, i)
  /\ LET r == saveReqs[i] IN
     /\ IF HasRecord(body, r.key)
          THEN services' =
                 ReplaceData(services, r.key, RowData(body.payment_services, r.key))
          ELSE services' = MergeData(services, r.key, r.editing)
     /\ last' = IF HasRecord(body, r.key)
                  THEN StepGot("saveOkRecord", r.key,
                               RowData(body.payment_services, r.key))
                  ELSE Step(IF body.parses THEN "saveOkNoRecord" ELSE "saveOkBadJson",
                            r.key)
  /\ expandedKey' = Null
  /\ editing' = Null
  /\ edited' = {}
  /\ saving' = FALSE
  /\ alertMsg' = "none"
  /\ savedOver' =
       LET k == saveReqs[i].key IN
       IF HasRow(services, k) /\ \E q \in toggleReqs : q.key = k
         THEN [savedOver EXCEPT ![k] = Some(RowData(services', k))]
         ELSE savedOver
  /\ UNCHANGED <<cardVars, loaded, filledFor, requests, token, authHeader,
                 loading, error, toggling, fetches, toggleReqs>>

\* A slip in the catch of saveService: the panel is closed as on success.
SaveFailCollapsing(i, kind) ==
  /\ i \in 1..Len(saveReqs)
  /\ saveReqs' = RemoveAt(saveReqs, i)
  /\ alertMsg' = "Failed to save"
  /\ saving' = FALSE
  /\ expandedKey' = Null
  /\ editing' = Null
  /\ last' = Step("saveFail", saveReqs[i].key)
  /\ UNCHANGED <<cardVars, savedOver, loaded, filledFor, requests, token,
                 authHeader, services, loading, error, toggling, fetches,
                 toggleReqs, edited>>

\* The save PATCH fails: the catch block, then finally.
SaveFail(i, kind) ==
  /\ i \in 1..Len(saveReqs)
  /\ saveReqs' = RemoveAt(saveReqs, i)
  /\ alertMsg' = "Failed to save"
  /\ saving' = FALSE
  /\ last' = Step("saveFail", saveReqs[i].key)
  /\ UNCHANGED <<cardVars, savedOver, loaded, filledFor, requests, token,
                 authHeader, services, loading, error, expandedKey, editing,
                 toggling, fetches, toggleReqs, edited>>

(* --------------------------- specification ----------------------------- *)

Next ==
  \/ \E t \in RawTokens : TokenChange(t)
  \/ \E i \in 1..Len(fetches), ps \in GetBodies : FetchOk(i, ps)
  \/ \E i \in 1..Len(fetches), kind \in GetFailures : FetchFail(i, kind)
  \/ \E k \in Keys : openManage(k)
  \/ cancelEdit
  \/ \E f \in EditableFields, v \in TypedValues : EditField(f, v)
  \/ \E k \in Keys : toggleService(k)
  \/ \E r \in toggleReqs : \E body \in PatchBodies(r.key) : ToggleOk(r, body)
  \/ \E r \in toggleReqs, kind \in PatchFailures : ToggleFail(r, kind)
  \/ \E k \in Keys : saveService(k)
  \/ \E i \in 1..Len(saveReqs) : \E body \in PatchBodies(saveReqs[i].key) : SaveOk(i, body)
  \/ \E i \in 1..Len(saveReqs), kind \in PatchFailures : SaveFail(i, kind)

Spec == Init /\ [][Next]_vars

\* Every request settles: the browser resolves or rejects each fetch, and the
\* continuation of its handler then runs.
FetchSettles ==
  \E i \in 1..Len(fetches) :
    \/ \E ps \in GetBodies : FetchOk(i, ps)
    \/ \E kind \in GetFailures : FetchFail(i, kind)
ToggleSettles(k) ==
  \E r \in toggleReqs :
    /\ r.key = k
    /\ \/ \E body \in PatchBodies(k) : ToggleOk(r, body)
       \/ \E kind \in PatchFailures : ToggleFail(r, kind)
SaveSettles ==
  \E i \in 1..Len(saveReqs) :
    \/ \E body \in PatchBodies(saveReqs[i].key) : SaveOk(i, body)
    \/ \E kind \in PatchFailures : SaveFail(i, kind)

FairSpec ==
  /\ Spec
  /\ WF_vars(FetchSettles)
  /\ \A k \in Keys : WF_vars(ToggleSettles(k))
  /\ WF_vars(SaveSettles)

(* ----------------- the header derivation on its own -------------------- *)

Quote == <<"\"">>
Space == <<" ">>

\* What may follow the head of a raw token: up to MaxBodyLen characters.
BodyChars == {"k", " ", "\t", "\""}
Bodies == UNION {[1..n -> BodyChars] : n \in 0..MaxBodyLen}

\* How a raw token may begin: nothing, a scheme in some letter case, a
\* quoted or padded scheme, two schemes.
Schemes ==
  { TokenWord, BearerWord,
    <<"t", "O", "K", "E", "N">>, <<"b", "e", "a", "r", "e", "r">> }
Heads ==
  {<<>>} \cup Schemes
    \cup {Concat(Quote, w) : w \in Schemes}
    \cup {Concat(Space, TokenWord), Concat(TokenWord, Concat(Space, BearerWord))}

\* Raw tokens of the auth hook, for the derivation on its own.
TokenStrings == {Concat(h, b) : h \in Heads, b \in Bodies}

\* The first render, before any effect has run: the initial values of
\* useState.
FirstRender ==
  /\ authHeader = Null
  /\ services = <<>>
  /\ loading = TRUE
  /\ error = Null
  /\ expandedKey = Null
  /\ editing = Null
  /\ saving = FALSE
  /\ toggling = [k \in Keys |-> Undefined]
  /\ fetches = <<>>
  /\ toggleReqs = {}
  /\ saveReqs = <<>>
  /\ alertMsg = "none"
  /\ edited = {}
  /\ last = Step("render", NoKey)
  /\ loaded = FALSE
  /\ filledFor = Null
  /\ savedOver = [k \in Keys |-> Null]
  /\ requests = 0

\* The page's first render for each token of the bounded set.
AuthInit ==
  /\ token \in {Null} \cup {Some(t) : t \in TokenStrings}
  /\ FirstRender
  /\ cardData = NullData
  /\ cards = Null
  /\ rendered = Null

\* The effect on [token] runs: setAuthHeader of the derived header.
Derive ==
  /\ last.op = "render"
  /\ authHeader' = DeriveAuthHeader(token)
  /\ last' = Step("derive", NoKey)
  /\ UNCHANGED <<token, services, loading, error, expandedKey, editing, saving,
                 toggling, fetches, toggleReqs, saveReqs, alertMsg, edited,
                 loaded, filledFor, savedOver, requests, cardVars>>

\* The header comes back as the hook's token and the effect runs on it; the
\* raw token of the first run is kept in last.from.
DeriveAgain ==
  /\ last.op = "derive"
  /\ authHeader # Null
  /\ token' = authHeader
  /\ authHeader' = DeriveAuthHeader(authHeader)
  /\ last' = StepFrom("deriveAgain", NoKey, token)
  /\ UNCHANGED <<services, loading, error, expandedKey, editing, saving,
                 toggling, fetches, toggleReqs, saveReqs, alertMsg, edited,
                 loaded, filledFor, savedOver, requests, cardVars>>

AuthNext == Derive \/ DeriveAgain

AuthSpec == AuthInit /\ [][AuthNext]_vars

(* --------------------- the card registry on its own -------------------- *)

\* The dashboard data is one of the bounded set; no registry is built yet.
CardInit ==
  /\ token = Null
  /\ FirstRender
  /\ cardData \in DashboardInputs
  /\ cards = Null
  /\ rendered = Null

\* makeCardDescriptors(data) is called.
MakeCards ==
  /\ cards = Null
  /\ cards' = Some(makeCardDescriptors(cardData))
  /\ UNCHANGED <<pageVars, cardData, rendered>>

\* The render of the descriptor under key id is called with d.
RenderCard(id, d) ==
  /\ cards # Null
  /\ id \in DOMAIN Get(cards)
  /\ rendered' = Some([id |-> id, data |-> d, element |-> Get(cards)[id].render[d]])
  /\ UNCHANGED <<pageVars, cardData, cards>>

CardNext ==
  \/ MakeCards
  \/ \E id \in CardIds, d \in DashboardInputs : RenderCard(id, d)

CardSpec == CardInit /\ [][CardNext]_vars

(* ------------------------------ properties ----------------------------- *)

ToggleSettleOps == {"toggleOkRecord", "toggleOkNoRecord", "toggleOkBadJson", "toggleFail"}
SaveOkOps == {"saveOkRecord", "saveOkNoRecord", "saveOkBadJson"}

\* The toggle request that the step settles (the one that leaves toggleReqs).
Settled(r) == r \in toggleReqs /\ r \notin toggleReqs'

\* C1: toggleService(k) at once sets row k's is_active to the negation of its
\* value before the toggle, and when the PATCH fails row k's is_active is set
\* back to the value it had before the toggle and an alert is raised.
C1_ToggleRollsBack ==
  [][/\ last'.op = "toggle" =>
          RowData(services', last'.key).is_active
            = Not(RowData(services, last'.key).is_active)
     /\ \A r \in toggleReqs :
          Settled(r) /\ last'.op = "toggleFail" =>
            /\ alertMsg' # "none"
            /\ HasRow(services', r.key) =>
                 RowData(services', r.key).is_active = r.before]_vars

\* C2: after a save of row k that succeeds without a record for k, the fields
\* the user edited hold the draft's values, every other field of row k is as
\* it was just before the response, no row is expanded and there is no draft.
C2_SaveMergesEditedFields ==
  [][last'.op \in {"saveOkNoRecord", "saveOkBadJson"} =>
       LET r == saveReqs[1] IN
       /\ expandedKey' = Null
       /\ editing' = Null
       /\ HasRow(services, r.key) =>
            \A f \in Fields :
              RowData(services', r.key)[f] =
                IF f \in r.edited THEN r.editing[f]
                                  ELSE RowData(services, r.key)[f]]_vars

\* C3: while the toggle request of row k is in flight (toggling[k] is true),
\* row k's is_active is the optimistic value that toggle computed.
C3_OptimisticWhileToggling ==
  \A r \in toggleReqs :
    Truthy(toggling[r.key]) /\ HasRow(services, r.key) =>
      RowData(services, r.key).is_active = r.newVal

\* C4: openManage(k) on the expanded row k leaves expandedKey null and editing
\* null, and whenever no row is expanded there is no draft.
C4_CollapsedHasNoDraft ==
  /\ last.op = "manageClose" => expandedKey = Null /\ editing = Null
  /\ expandedKey = Null => editing = Null

\* C5: when the toggle PATCH of row k succeeds with a body that parses and
\* holds payment_services[k], row k's data becomes exactly that record; with
\* no record for k, or a body that is not JSON, the list is left as it is (the
\* optimistic value stays) and neither an alert nor a page error is raised.
C5_ToggleSuccess ==
  [][/\ last'.op = "toggleOkRecord" =>
          /\ Len(services') = Len(services)
          /\ \A i \in 1..Len(services) :
               services'[i] =
                 IF services[i].key = last'.key
                   THEN Row(last'.key, Get(last'.got)) ELSE services[i]
          /\ alertMsg' = "none" /\ error' = error
     /\ last'.op \in {"toggleOkNoRecord", "toggleOkBadJson"} =>
          /\ services' = services
          /\ alertMsg' = "none" /\ error' = error]_vars

\* Row k exists and a toggle response has just replaced its data by a record
\* that lacks the fields the row had.
C5_Witness ==
  /\ last.op = "toggleOkRecord"
  /\ last.got = Some(EmptyData)
  /\ HasRow(services, last.key)
  /\ RowData(services, last.key) = EmptyData

\* C6: a toggle request of row k that settles, with a record, without one or
\* by failing, leaves toggling[k] false; and when every request settles,
\* toggling[k] true leads to toggling[k] false.
C6_TogglingCleared ==
  /\ [][last'.op \in ToggleSettleOps /\ toggleReqs' # toggleReqs =>
          toggling'[last'.key] = False]_vars
  /\ \A k \in Keys : (toggling[k] = True) ~> (toggling[k] = False)

\* A failed toggle has just cleared the flag of its row.
C6_Witness ==
  /\ last.op = "toggleFail"
  /\ toggling[last.key] = False
  /\ alertMsg = "Failed to change status"

\* C7: saving is true exactly when a save PATCH is in flight, and at most one
\* save PATCH is in flight.
C7_SavingIffInFlight ==
  /\ saving <=> saveReqs # <<>>
  /\ Len(saveReqs) <= 1

\* A save has just failed: nothing is in flight and saving is false again.
C7_Witness ==
  /\ last.op = "saveFail"
  /\ ~saving
  /\ saveReqs = <<>>

\* C8: a failed save PATCH changes neither expandedKey nor the draft nor the
\* list, and raises an alert.
C8_SaveFailureKeepsPanel ==
  [][last'.op = "saveFail" =>
       /\ expandedKey' = expandedKey
       /\ editing' = editing
       /\ services' = services
       /\ alertMsg' = "Failed to save"]_vars

\* The save of the open panel has just failed; the panel is open on the same
\* row with an edited draft.
C8_Witness ==
  /\ last.op = "saveFail"
  /\ expandedKey = Some(last.key)
  /\ editing # Null
  /\ Get(editing).url = "u2"
  /\ alertMsg = "Failed to save"

\* The rows whose manage panel the render shows.
ExpandedRows == {i \in 1..Len(services) : expandedKey = Some(services[i].key)}

\* C9: at most one row is expanded, and openManage(B) while another row A is
\* expanded leaves B the expanded row with a draft that is a copy of row B's
\* current data (the empty draft when B is no row).
C9_OneExpandedRow ==
  /\ [](Cardinality(ExpandedRows) <= 1)
  /\ [][last'.op = "manageOpen" /\ expandedKey # Null =>
          /\ expandedKey' = Some(last'.key)
          /\ editing' = IF HasRow(services, last'.key)
                          THEN Some(RowData(services, last'.key))
                          ELSE Some(EmptyData)
          /\ services' = services]_vars

\* Row a was expanded with an edited draft, and Manage on row b has just made
\* b the expanded row with a copy of b's data as the draft.
C9_Witness ==
  /\ last.op = "manageOpen"
  /\ last.key = "b"
  /\ last.from = Some("a")
  /\ expandedKey = Some("b")
  /\ HasRow(services, "a")
  /\ editing = Some(RowData(services, "b"))
  /\ RowData(services, "b") # RowData(services, "a")

\* C10: after a list fetch fails, the page error is set and the list is
\* empty, also when the failing fetch is a re-fetch after a successful one.
C10_FailedFetchEmptiesList ==
  last.op = "fetchFail" => error # Null /\ services = <<>>

\* C10 as amended: a failing list fetch of the current effect sets the page
\* error, ends loading and leaves the list as it was: empty when no fetch has
\* filled it before, the rows of the earlier fetch otherwise.
C10_FailedFetchKeepsList ==
  /\ [][last'.op = "fetchFail" =>
          /\ error' # Null
          /\ ~loading'
          /\ services' = services]_vars
  /\ [](last.op = "fetchFail" /\ ~loaded => services = <<>>)

\* A re-fetch has just failed and the rows of the earlier fetch are still in
\* the list.
C10_Witness ==
  /\ last.op = "fetchFail"
  /\ loaded
  /\ services # <<>>
  /\ error # Null

FetchOps == {"fetchOk", "fetchFail", "fetchStale"}

\* No request is in flight.
AllSettled == fetches = <<>> /\ toggleReqs = {} /\ saveReqs = <<>>

\* The step settles the GET at position i, whose effect run was cleaned up.
StaleSettles(i) ==
  /\ i \in 1..Len(fetches)
  /\ ~fetches[i].mounted
  /\ fetches' = RemoveAt(fetches, i)

\* C11: a list fetch whose effect run was cleaned up before it settles leaves
\* services, error and loading as they are; and once every request has
\* settled, the list is the work of the fetch issued for the latest header.
C11_OnlyLatestFetchShows ==
  /\ [][(\E i \in 1..Len(fetches) : StaleSettles(i)) =>
          UNCHANGED <<services, error, loading>>]_vars
  /\ [](AllSettled /\ loaded => filledFor = authHeader)

\* C11 as amended: a cleaned-up fetch leaves services, error and loading as
\* they are, only the fetch of the latest header is ever live, and once every
\* request has settled with a header and no page error the list was filled by
\* the fetch for that header; after a failed fetch or without a header the
\* list may still hold the rows fetched for an earlier header.
C11_StaleFetchIgnored ==
  /\ [][(\E i \in 1..Len(fetches) : StaleSettles(i)) =>
          UNCHANGED <<services, error, loading>>]_vars
  /\ [](\A i \in 1..Len(fetches) :
          fetches[i].mounted => i = Len(fetches) /\ fetches[i].auth = authHeader)
  /\ [](AllSettled /\ authHeader # Null /\ error = Null =>
          loaded /\ filledFor = authHeader)

\* The fetch of an earlier header has just settled after the fetch of the
\* latest header filled the list, and the list is still the latest one's.
C11_Witness ==
  /\ last.op = "fetchStale"
  /\ AllSettled
  /\ error = Null
  /\ services # <<>>
  /\ filledFor = authHeader

\* The hook's token is absent, empty, or empty once cleaned.
TokenIsBlank ==
  token = Null \/ Get(token) = <<>> \/ Trim(Unquote(Get(token))) = <<>>

\* C12: whenever the derived auth header is null (no token, or a token that
\* is empty after cleaning) no GET is issued for it, no fetch is live, the
\* page error is the missing-token message and loading is false.
C12_NoHeaderNoFetch ==
  /\ [](TokenIsBlank => authHeader = Null)
  /\ [](authHeader = Null =>
          /\ error = Some(NoTokenMsg)
          /\ ~loading
          /\ \A i \in 1..Len(fetches) : ~fetches[i].mounted)
  /\ [][authHeader' = Null =>
          /\ requests' <= requests
          /\ Len(fetches') <= Len(fetches)]_vars

\* A token that is empty after cleaning has just replaced a usable one while
\* its GET was in flight; the page shows the missing-token message.
C12_Witness ==
  /\ last.op = "token"
  /\ token # Null
  /\ TokenIsBlank
  /\ authHeader = Null
  /\ fetches # <<>>
  /\ error = Some(NoTokenMsg)

\* The raw token of the derivation the state reports, cleaned as
\* sanitizeToken cleans it: one layer of quotes, then the whitespace around.
Cleaned(tok) == Trim(Unquote(Get(tok)))

\* The number of scheme prefixes, as hasScheme tells them, a string begins
\* with.
SchemeWordLen(s) ==
  IF StartsWithWordSpace(BearerWord, s) THEN Len(BearerWord) ELSE Len(TokenWord)
RECURSIVE SchemeCount(_)
SchemeCount(s) ==
  IF hasScheme(s)
    THEN 1 + SchemeCount(TrimStart(SubSeq(s, SchemeWordLen(s) + 1, Len(s))))
    ELSE 0

BeginsWithScheme(t) ==
  \E w \in {BearerWord, TokenWord} :
    /\ Len(t) > Len(w)
    /\ \A i \in 1..Len(w) : Lower(t[i]) = Lower(w[i])
    /\ t[Len(w) + 1] = " "

\* C14: for a raw token that begins with Bearer or Token and a space, the
\* derived header is the token with one layer of quotes and the whitespace
\* around it removed, and no scheme in front.
C14_SchemeTokenVerbatim ==
  last.op = "derive" /\ token # Null /\ BeginsWithScheme(Get(token)) =>
    authHeader = Some(Cleaned(token))

\* C15: for a raw token that carries no scheme prefix, the derived header is
\* Token, a space, and the token with one layer of quotes and the whitespace
\* around it removed.
C15_BareTokenPrefixed ==
  last.op = "derive" /\ token # Null /\ ~hasScheme(Get(token)) =>
    authHeader = Some(Concat(TokenWord, Concat(Space, Cleaned(token))))

\* C15 as amended: the scheme is looked for in the cleaned token; when that
\* is not empty and carries no scheme prefix the header is Token, a space and
\* the cleaned token, and when it is empty the header is null.
C15_CleanedBareTokenPrefixed ==
  last.op = "derive" /\ token # Null =>
    /\ Cleaned(token) # <<>> /\ ~hasScheme(Cleaned(token)) =>
         authHeader = Some(Concat(TokenWord, Concat(Space, Cleaned(token))))
    /\ Cleaned(token) = <<>> => authHeader = Null

\* A quoted token without a scheme was derived into a header.
C15_Witness ==
  /\ last.op = "derive"
  /\ token # Null
  /\ Unquote(Get(token)) # Get(token)
  /\ Cleaned(token) # <<>>
  /\ ~hasScheme(Cleaned(token))
  /\ authHeader = Some(Concat(TokenWord, Concat(Space, Cleaned(token))))

\* C16: for every dashboard data, null included, the registry's keys are
\* the four card identifiers, each descriptor's id is its key, and a render
\* called with null or undefined yields its element with an empty array for
\* the chart series and for the user list.
C16_CardRegistry ==
  /\ cards # Null =>
       /\ DOMAIN Get(cards) = CardIds
       /\ Cardinality(DOMAIN Get(cards)) = 4
       /\ \A k \in DOMAIN Get(cards) : Get(cards)[k].id = k
  /\ rendered # Null /\ Get(rendered).data \in {NullData, UndefinedData} =>
       LET id == Get(rendered).id
           e == Get(rendered).element
       IN  /\ id = "card-sales" =>
                e.component = "SalesChart" /\ e.props.salesData = Arr(<<>>)
           /\ id = "card-recent-users" =>
                e.component = "RecentUsersTable" /\ e.props.users = Arr(<<>>)
           /\ id = "card-sales-source" => e = Element("SalesSourceCard", NoProps)
           /\ id = "card-transactions" => e = Element("Transactions", NoProps)

\* The registry was built from data with a user list, and the render of the
\* user card was called with null.
C16_Witness ==
  /\ cardData \notin {NullData, UndefinedData}
  /\ recentUsersOf(cardData) = Arr(<<"p">>)
  /\ rendered # Null
  /\ Get(rendered).id = "card-recent-users"
  /\ Get(rendered).data = NullData
  /\ Get(rendered).element.props.users = Arr(<<>>)

\* C17: nothing keeps a toggle and a save of the same key apart: the toggle
\* button of a listed row works whenever its own toggling flag is clear, a
\* save in flight or not, and the Save button of the open panel works
\* whenever saving is false, a toggle in flight or not; and when the record
\* of a toggle response arrives after a save of its key completed in between,
\* row k is that record, whatever the save wrote.
C17_ToggleOverwritesSave ==
  /\ \A k \in Keys :
       RowsShown /\ HasRow(services, k) /\ ~Truthy(toggling[k])
         /\ requests < MaxRequests => ENABLED toggleService(k)
  /\ \A k \in Keys :
       PanelShown(k) /\ ~saving /\ editing # Null
         /\ requests < MaxRequests => ENABLED saveService(k)
  /\ last.op = "toggleOkRecord" /\ last.from # Null /\ HasRow(services, last.key) =>
       RowData(services, last.key) = Get(last.got)

\* The toggle PATCH of row k was in flight when a save of k completed and
\* left the typed url in the row; the toggle's record has just replaced the
\* row, and the typed url is gone.
C17_Witness ==
  /\ last.op = "toggleOkRecord"
  /\ last.from # Null
  /\ Get(last.from).url \in TypedValues
  /\ HasRow(services, last.key)
  /\ RowData(services, last.key) = Get(last.got)
  /\ RowData(services, last.key).url \notin TypedValues

\* C18: a successful save of key k collapses the panel of k only and
\* discards the draft of k only: when another row j was expanded while the
\* save was in flight, row j is still expanded after the save completes and
\* its draft is as it was.
C18_SaveKeepsOtherPanel ==
  [][last'.op \in SaveOkOps /\ expandedKey # Null
       /\ expandedKey # Some(last'.key) =>
         expandedKey' = expandedKey /\ editing' = editing]_vars

\* C19: toggle and save never change which keys are in the list or their
\* order, nor the data of a row whose key is not the request's: only a list
\* fetch that fills the list adds, removes or moves rows, and every other
\* step leaves all rows but that of its own key as they are.
C19_OnlyOwnRowChanges ==
  [][last'.op # "fetchOk" =>
       /\ Len(services') = Len(services)
       /\ \A i \in 1..Len(services) :
            /\ services'[i].key = services[i].key
            /\ services[i].key # last'.key => services'[i] = services[i]]_vars

\* Rows a and b are listed; a save of b has just merged the typed url into
\* row b, and row a is as the fetch delivered it.
C19_Witness ==
  /\ last.op \in SaveOkOps
  /\ last.key = "b"
  /\ Len(services) = 2
  /\ services[1] = Row("a", dOff)
  /\ services[2].key = "b"
  /\ services[2].data.url \in TypedValues

\* C20: while every GET settles, loading true leads to loading false;
\* loading turns true only in a step that changes the auth header; a
\* cleaned-up fetch that settles leaves loading as it is; and loading is true
\* only while the fetch of the latest header is in flight, so a discarded
\* fetch never leaves it stuck.
C20_LoadingEnds ==
  /\ loading ~> ~loading
  /\ [][~loading /\ loading' => authHeader' # authHeader]_vars
  /\ [][(\E i \in 1..Len(fetches) : StaleSettles(i)) => loading' = loading]_vars
  /\ [](loading => \E i \in 1..Len(fetches) : fetches[i].mounted)

\* The fetch of the latest header has just ended loading while a fetch of an
\* earlier header, discarded by the guard, is still to settle.
C20_Witness ==
  /\ last.op \in {"fetchOk", "fetchFail"}
  /\ ~loading
  /\ authHeader # Null
  /\ fetches # <<>>
  /\ \A i \in 1..Len(fetches) : ~fetches[i].mounted

====
